---- MODULE Spec2Model ----
(***************************************************************************)
(* Model of the Blender backend of the kubric viewer                       *)
(* (src/kubric/viewer/blender.py) and of the driver (src/worker.py).       *)
(*                                                                         *)
(* The backend wraps native Blender objects (bpy) behind the three.js      *)
(* style interface of kubric.viewer.interface.  The interface module is    *)
(* not part of the reviewed sources; its setters and initializers are      *)
(* modelled from spec.md (section 4.1) and are named Interface_*.          *)
(***************************************************************************)
EXTENDS Integers, Sequences, FiniteSets, TLC

\* ------------------------------------------------------------------ bounds
MaxNatives == 3
MaxWrappers == 2
MaxGeometries == 2
MaxHandlers == 2
MaxKeyframes == 2

\* ------------------------------------------------------------- value sets
\* Raw arguments handed to the transform setters.  <<1, 2>> is not a 3-vector.
Vec3Args == {<<0, 0, 0>>, <<1, 2, 3>>, <<1, 2>>}
ScaleArgs == {<<1, 1, 1>>, <<2, 2, 2>>}
\* Raw quaternions (WXYZ).  Only axis-aligned quaternions are drawn, so that
\* normalisation is exact on integers; <<0, 2, 0, 0>> is not of unit length
\* and <<0, 0, 0, 0>> cannot be normalised.
QuatArgs == {<<1, 0, 0, 0>>, <<0, 2, 0, 0>>, <<0, 0, 0, 0>>}
Frames == {0, 1}
Members == {"position", "quaternion", "scale", "bogus"}
ObjNames == {"", "uid1"}
\* 0xffffff and 0x030303
ColorArgs == {16777215, 197379}
ScalarArgs == {1, 2}

\* ------------------------------------------------------ interface (spec.md)
Abs(x) == IF x < 0 THEN -x ELSE x

\* Length of an axis-aligned quaternion.
QuatNorm(q) == Abs(q[1]) + Abs(q[2]) + Abs(q[3]) + Abs(q[4])

\* interface.Object3D._set_position / _set_scale: the value must be a 3-vector.
Interface_vec3_valid(value) == Len(value) = 3

Interface_vec3_stored(value) == value

\* interface.Object3D._set_quaternion: the value must normalise to unit length.
Interface_quaternion_valid(value) == Len(value) = 4 /\ QuatNorm(value) # 0

Interface_quaternion_stored(value) == [i \in 1..4 |-> value[i] \div QuatNorm(value)]

\* interface light colour: a hex integer is stored as an RGBA tuple.
Interface_color_stored(value) ==
  <<(value \div 65536) % 256, (value \div 256) % 256, value % 256, 255>>

\* interface scalar properties (intensity, width, frame_start ...) store the value.
Interface_scalar_stored(value) == value

\* ------------------------------------------------------------------- state
VARIABLES
  ifaceInitUsesSetters, \* does interface.Object3D.__init__ assign its defaults through the property setters
  natives,        \* bpy.data.objects: Seq of native object records
  datablocks,     \* bpy.data.cameras / bpy.data.lights: Seq of records
  wrappers,       \* the backend Object3D instances (and subtypes)
  geometries,     \* the backend Geometry instances
  keyframes,      \* animation data: set of [native, data_path, frame, value]
  scene,          \* the Scene wrapper and bpy.context.scene frame range / camera / links
  render,         \* bpy.context.scene.render and the Renderer's interface size
  world,          \* bpy.context.scene.world.node_tree: [nodes, links]
  ambient,        \* the AmbientLight wrapper's interface state
  handlers,       \* bpy.app.handlers.render_write: Seq of callbacks
  lastWriter,     \* per native and channel, the wrapper that wrote it last (0: none)
  lastSet,        \* the last setter call: what was stored and what was written
  lastCtor,       \* the last constructor call: its trace of events
  lastCall,       \* the last keyframe_insert call
  renderLog,      \* the last render call: the backend operations it invoked
  lastBg,         \* the last set_up_background call: its arguments
  driver          \* worker.py: where the driver script is (pc "off": not running)

objVars == <<natives, datablocks, wrappers, geometries, keyframes, lastWriter>>
sceneVars == <<scene, render, world, ambient, handlers>>
ghostVars == <<lastSet, lastCtor, lastCall, renderLog, lastBg>>
vars == <<ifaceInitUsesSetters, objVars, sceneVars, ghostVars, driver>>

\* ---------------------------------------------------------------- records
NoVec == <<>>

\* A value Blender chose, not the program.
BackendDefault == 0

\* bpy.data.objects.new / primitive_*_add / object.add / import: a fresh native object.
NewNative(kind, data) ==
  [kind |-> kind, data |-> data, name |-> "",
   location |-> <<0, 0, 0>>, scale |-> <<1, 1, 1>>,
   rotation_quaternion |-> <<1, 0, 0, 0>>, rotation_euler |-> <<0, 0, 0>>,
   rotation_mode |-> "XYZ", materials |-> 0, mesh_data |-> FALSE]

\* bpy.data.cameras.new / bpy.data.lights.new: a fresh camera or light resource.
NewData(kind) ==
  [kind |-> kind, type |-> IF kind = "CAMERA" THEN "PERSP" ELSE kind,
   shape |-> "SQUARE", lens |-> BackendDefault, ortho_scale |-> BackendDefault,
   color |-> NoVec, energy |-> BackendDefault, angle |-> BackendDefault,
   size |-> BackendDefault, size_y |-> BackendDefault]

\* The interface state of a wrapper after interface.Object3D.__init__.
NewWrapper(cls, native, data) ==
  [cls |-> cls, native |-> native, data |-> data, geometry |-> 0,
   position |-> <<0, 0, 0>>, scale |-> <<1, 1, 1>>, quaternion |-> <<1, 0, 0, 0>>,
   color |-> NoVec, intensity |-> 0, shadow_softness |-> 0, width |-> 0, height |-> 0,
   focal_length |-> 0, frustum |-> NoVec, assigned |-> {}]

NoWriter == [location |-> 0, scale |-> 0, rotation_quaternion |-> 0]

NoSet == [target |-> "none", prop |-> "none", obj |-> 0, source |-> "none",
          raised |-> FALSE, arg |-> NoVec, stored |-> NoVec, written |-> NoVec]

NoCtor == [cls |-> "none", trace |-> <<>>, raised |-> FALSE, wrapper |-> 0,
           geometry |-> 0, imported |-> 0, reused |-> FALSE]

NoCall == [op |-> "none", obj |-> 0, member |-> "none", frame |-> 0, raised |-> FALSE]

NoRender == [suffix |-> "none", camera |-> 0, ops |-> <<>>, raised |-> FALSE,
             frames |-> <<>>, callbacks |-> <<>>, callback |-> 0]

NoBg == [called |-> FALSE, raised |-> FALSE, hdri |-> "none", bg |-> NoVec, cleared |-> {}]

Ev(kind, name) == [kind |-> kind, name |-> name]

\* The driver script (worker.py 110-171) between two backend calls.
DriverOff == [pc |-> "off", frame_start |-> 0, frame_end |-> 0, camera |-> 0, obj |-> 0,
              frame |-> 0]

\* worker.py 165: for frame_id in range(scene.frame_start, scene.frame_end);
\* after the loop of the last object comes the render call of line 171.
DriverLoop(frame_id) ==
  IF frame_id < scene.iface_frame_end
  THEN [driver EXCEPT !.pc = "position", !.frame = frame_id]
  ELSE [driver EXCEPT !.pc = "render"]

\* The statement the driver is at after the call it was at returned; an
\* exception ends the script.
DriverStep(raised) ==
  IF raised
  THEN [driver EXCEPT !.pc = "crashed"]
  ELSE CASE driver.pc = "frame_start" -> [driver EXCEPT !.pc = "frame_end"]
         [] driver.pc = "frame_end" -> [driver EXCEPT !.pc = "camera"]
         [] driver.pc = "camera" -> [driver EXCEPT !.pc = "import", !.camera = lastCtor'.wrapper]
         [] driver.pc = "import" -> [driver EXCEPT !.pc = "pose_position",
                                                   !.obj = lastCtor'.wrapper]
         [] driver.pc = "pose_position" -> [driver EXCEPT !.pc = "pose_quaternion"]
         [] driver.pc = "pose_quaternion" -> DriverLoop(scene.iface_frame_start)
         [] driver.pc = "position" -> [driver EXCEPT !.pc = "quaternion"]
         [] driver.pc = "quaternion" -> [driver EXCEPT !.pc = "keyframe_position"]
         [] driver.pc = "keyframe_position" -> [driver EXCEPT !.pc = "keyframe_quaternion"]
         [] driver.pc = "keyframe_quaternion" -> DriverLoop(driver.frame + 1)
         [] driver.pc = "render" -> [driver EXCEPT !.pc = "done"]
         [] OTHER -> driver

\* The call records describe the last operation only: each operation clears
\* the records of the other kinds; when the driver script is running, the
\* operation was its current statement and it moves to the next.
AfterSet ==
  /\ lastCtor' = NoCtor /\ lastCall' = NoCall /\ renderLog' = NoRender
  /\ driver' = IF driver.pc = "off" THEN driver ELSE DriverStep(lastSet'.raised)

AfterCtor ==
  /\ lastSet' = NoSet /\ lastCall' = NoCall /\ renderLog' = NoRender
  /\ driver' = IF driver.pc = "off" THEN driver ELSE DriverStep(lastCtor'.raised)

AfterCall ==
  /\ lastSet' = NoSet /\ lastCtor' = NoCtor /\ renderLog' = NoRender
  /\ driver' = IF driver.pc = "off" THEN driver ELSE DriverStep(lastCall'.raised)

AfterRender ==
  /\ lastSet' = NoSet /\ lastCtor' = NoCtor /\ lastCall' = NoCall
  /\ driver' = IF driver.pc = "off" THEN driver ELSE DriverStep(renderLog'.raised)

AfterOther == AfterSet /\ lastSet' = NoSet

\* Blender's factory scene (bpy.ops.wm.read_homefile): frames 1..250.
HomeFrameStart == 1
HomeFrameEnd == 250

\* A node of the world shading graph.  Blender keeps node names unique in a
\* tree: the idx-th node of a type is named base, base.001, ...
Node(type, idx) ==
  [type |-> type, idx |-> idx, color |-> NoVec, strength |-> BackendDefault,
   image |-> "none", rotation |-> NoVec]

Link(from, out, to, inp) == [from |-> from, out |-> out, to |-> to, inp |-> inp]

\* The world shading graph of Blender's factory scene: a Background shader
\* wired into the World Output.
HomeWorld ==
  [nodes |-> {Node("ShaderNodeBackground", 0), Node("ShaderNodeOutputWorld", 0)},
   links |-> {Link(<<"ShaderNodeBackground", 0>>, "Background",
                   <<"ShaderNodeOutputWorld", 0>>, "Surface")}]

\* State after Renderer() and Scene() were constructed (worker.py 110-112).
InitBackend ==
  /\ ifaceInitUsesSetters \in BOOLEAN
  /\ natives = <<>>
  /\ datablocks = <<>>
  /\ wrappers = <<>>
  /\ geometries = <<>>
  /\ keyframes = {}
  /\ scene = [iface_frame_start |-> HomeFrameStart, iface_frame_end |-> HomeFrameEnd,
              frame_start |-> HomeFrameStart, frame_end |-> HomeFrameEnd,
              camera |-> 0, linked |-> {}, fps |-> 24]
  /\ render = [film_transparent |-> FALSE, resolution_x |-> BackendDefault,
               resolution_y |-> BackendDefault, width |-> 0, height |-> 0,
               filepath |-> "none", file_format |-> "PNG", color_mode |-> "RGBA",
               ffmpeg_format |-> "none", ffmpeg_codec |-> "none",
               view_perspective |-> "PERSP", engine |-> "CYCLES"]
  /\ world = HomeWorld
  /\ ambient = [exists |-> FALSE, color |-> NoVec, intensity |-> 0]
  /\ lastWriter = <<>>
  /\ lastSet = NoSet
  /\ lastCtor = NoCtor
  /\ lastCall = NoCall
  /\ handlers = <<>>
  /\ renderLog = NoRender
  /\ lastBg = NoBg

\* The backend used call by call, without the driver script.
Init == InitBackend /\ driver = DriverOff

\* ============================================================== Object3D
\* interface.Object3D.__init__ (spec.md 4.1: the initializer writes the
\* default position/quaternion).  When it assigns through the property
\* setters the backend overrides run, and raise if no native object is
\* attached yet.
Interface_Object3D_init(attached) ==
  IF ifaceInitUsesSetters
  THEN [events |-> <<Ev("iface_init", "interface.Object3D.__init__"),
                     Ev("setter", "Object3D._set_position")>>
                   \o (IF attached
                       THEN <<Ev("setter", "Object3D._set_scale"),
                              Ev("setter", "Object3D._set_quaternion")>>
                       ELSE <<Ev("raise", "AttributeError: _blender_object")>>),
        raised |-> ~attached]
  ELSE [events |-> <<Ev("iface_init", "interface.Object3D.__init__")>>,
        raised |-> FALSE]

\* Object3D.__init__: the interface initializer runs first, then the native
\* object is attached and switched to quaternion rotation.
Object3D_init ==
  LET i == Interface_Object3D_init(FALSE)
  IN IF i.raised
     THEN i
     ELSE [events |-> i.events \o <<Ev("attach", "self._blender_object"),
                                    Ev("backend", "rotation_mode")>>,
           raised |-> FALSE]

\* What each setter override pushes to the native object, and where it reads it.
Object3D_set_position_write(self, value) == [value |-> self.position, source |-> "interface"]

Object3D_set_scale_write(self, value) == [value |-> self.scale, source |-> "interface"]

Object3D_set_quaternion_write_raw(self, value) == [value |-> value, source |-> "argument"]

Object3D_set_quaternion_write(self, value) == [value |-> self.quaternion, source |-> "interface"]

\* A setter override of Object3D: super()._set_x(value), then the native write.
SetTransform(o, prop, chan, value, ok, stored, Write(_, _)) ==
  IF ~ok
  THEN /\ lastSet' = [NoSet EXCEPT !.target = "Object3D", !.prop = prop, !.obj = o,
                                   !.raised = TRUE, !.arg = <<value>>]
       /\ UNCHANGED <<natives, wrappers, lastWriter>>
  ELSE LET self == [wrappers[o] EXCEPT ![prop] = stored, !.assigned = @ \cup {prop}]
           w == Write(self, value)
       IN /\ wrappers' = [wrappers EXCEPT ![o] = self]
          /\ natives' = [natives EXCEPT ![self.native][chan] = w.value]
          /\ lastWriter' = [lastWriter EXCEPT ![self.native][chan] = o]
          /\ lastSet' = [target |-> "Object3D", prop |-> prop, obj |-> o,
                         source |-> w.source, raised |-> FALSE, arg |-> <<value>>,
                         stored |-> <<self[prop]>>, written |-> <<w.value>>]

Object3D_set_position(o, value) ==
  /\ SetTransform(o, "position", "location", value, Interface_vec3_valid(value),
                  Interface_vec3_stored(value), Object3D_set_position_write)
  /\ UNCHANGED <<ifaceInitUsesSetters, datablocks, geometries, keyframes, sceneVars, lastBg>>
  /\ AfterSet

Object3D_set_scale(o, value) ==
  /\ SetTransform(o, "scale", "scale", value, Interface_vec3_valid(value),
                  Interface_vec3_stored(value), Object3D_set_scale_write)
  /\ UNCHANGED <<ifaceInitUsesSetters, datablocks, geometries, keyframes, sceneVars, lastBg>>
  /\ AfterSet

Object3D_set_quaternion(o, value) ==
  /\ SetTransform(o, "quaternion", "rotation_quaternion", value,
                  Interface_quaternion_valid(value),
                  IF Interface_quaternion_valid(value)
                  THEN Interface_quaternion_stored(value) ELSE value,
                  Object3D_set_quaternion_write)
  /\ UNCHANGED <<ifaceInitUsesSetters, datablocks, geometries, keyframes, sceneVars, lastBg>>
  /\ AfterSet

\* ------------------------------------------------------------ keyframing
MemberToBlenderDataPath_withScale ==
  [position |-> "location", quaternion |-> "rotation_quaternion", scale |-> "scale"]

MemberToBlenderDataPath_euler ==
  [position |-> "location", quaternion |-> "rotation_euler"]

\* Object3D._member_to_blender_data_path
MemberToBlenderDataPath ==
  [position |-> "location", quaternion |-> "rotation_quaternion"]

\* hasattr(self, member): the attributes of a wrapper that the member names
\* drawn here can hit.
HasAttr(member) == member \in {"position", "quaternion", "scale"}

\* bpy_struct.keyframe_insert(data_path, frame): records the channel's
\* current value at the frame, replacing a keyframe already there.
NativeKeyframeInsert(kfs, n, data_path, frame) ==
  {k \in kfs : ~(k.native = n /\ k.data_path = data_path /\ k.frame = frame)}
  \cup {[native |-> n, data_path |-> data_path, frame |-> frame,
         value |-> natives[n][data_path]]}

Object3D_keyframe_insert(o, member, frame) ==
  /\ Cardinality(keyframes) < MaxKeyframes
  /\ IF ~HasAttr(member) \/ member \notin DOMAIN MemberToBlenderDataPath
     THEN /\ lastCall' = [op |-> "keyframe_insert", obj |-> o, member |-> member,
                          frame |-> frame, raised |-> TRUE]
          /\ UNCHANGED keyframes
     ELSE /\ keyframes' = NativeKeyframeInsert(keyframes, wrappers[o].native,
                                               MemberToBlenderDataPath[member], frame)
          /\ lastCall' = [op |-> "keyframe_insert", obj |-> o, member |-> member,
                          frame |-> frame, raised |-> FALSE]
  /\ UNCHANGED <<ifaceInitUsesSetters, natives, datablocks, wrappers, geometries,
                 lastWriter, sceneVars, lastBg>>
  /\ AfterCall

\* ========================================================== constructors
CtorUnchanged == UNCHANGED <<ifaceInitUsesSetters, keyframes, sceneVars, lastBg>> /\ AfterCtor

Frustums == {<<-2, 2, 1, -1>>}

\* Scene.add_from_file: the importer leaves k native objects selected; exactly
\* one is required, optionally renamed, and wrapped in an Object3D.
Scene_add_from_file(k, name) ==
  /\ Len(natives) + k <= MaxNatives
  /\ Len(wrappers) < MaxWrappers
  /\ LET n == Len(natives) + 1
         imported == [i \in 1..k |-> NewNative("IMPORTED", 0)]
         init == Object3D_init
         pre == <<Ev("native", "bpy.ops.import_scene.obj")>>
     IN IF k # 1
        THEN /\ natives' = natives \o imported
             /\ lastWriter' = lastWriter \o [i \in 1..k |-> NoWriter]
             /\ lastCtor' = [NoCtor EXCEPT !.cls = "add_from_file", !.imported = k,
                               !.raised = TRUE,
                               !.trace = pre \o <<Ev("raise", "AssertionError")>>]
             /\ UNCHANGED wrappers
        ELSE /\ natives' = Append(natives,
                  [imported[1] EXCEPT !.name = IF name # "" THEN name ELSE @,
                                      !.rotation_mode = IF init.raised THEN @ ELSE "QUATERNION"])
             /\ lastWriter' = Append(lastWriter, NoWriter)
             /\ wrappers' = IF init.raised THEN wrappers
                            ELSE Append(wrappers, NewWrapper("Object3D", n, 0))
             /\ lastCtor' = [NoCtor EXCEPT !.cls = "add_from_file", !.imported = k,
                               !.raised = init.raised,
                               !.wrapper = IF init.raised THEN 0 ELSE Len(wrappers) + 1,
                               !.trace = pre \o init.events]
  /\ UNCHANGED <<datablocks, geometries>>
  /\ CtorUnchanged

\* Camera.__init__ up to and including Object3D.__init__: the camera
\* resource and its object are created, then wrapped.
Camera_init ==
  LET init == Object3D_init
  IN [events |-> <<Ev("native", "bpy.data.cameras.new"), Ev("native", "bpy.data.objects.new")>>
                 \o init.events,
      raised |-> init.raised]

\* The native state a Camera constructor leaves, given the camera resource.
CameraBuilt(cls, chain, data, wrapper) ==
  /\ datablocks' = Append(datablocks, data)
  /\ natives' = Append(natives,
        [NewNative("CAMERA", Len(datablocks) + 1)
           EXCEPT !.name = "Camera",
                  !.rotation_mode = IF chain.raised THEN @ ELSE "QUATERNION"])
  /\ lastWriter' = Append(lastWriter, NoWriter)
  /\ wrappers' = IF chain.raised THEN wrappers ELSE Append(wrappers, wrapper)
  /\ lastCtor' = [NoCtor EXCEPT !.cls = cls, !.raised = chain.raised, !.trace = chain.events,
                                !.wrapper = IF chain.raised THEN 0 ELSE Len(wrappers) + 1]

Camera ==
  /\ Len(natives) < MaxNatives
  /\ Len(wrappers) < MaxWrappers
  /\ CameraBuilt("Camera", Camera_init, NewData("CAMERA"),
                 NewWrapper("Camera", Len(natives) + 1, Len(datablocks) + 1))
  /\ UNCHANGED geometries
  /\ CtorUnchanged

\* PerspectiveCamera.__init__: Camera.__init__, the interface initializer,
\* then the camera type and lens.
PerspectiveCamera_init ==
  LET c == Camera_init
  IN IF c.raised THEN c
     ELSE [events |-> c.events \o <<Ev("iface_init", "interface.PerspectiveCamera.__init__"),
                                    Ev("backend", "camera.type"), Ev("backend", "camera.lens")>>,
           raised |-> FALSE]

PerspectiveCamera(focal_length) ==
  /\ Len(natives) < MaxNatives
  /\ Len(wrappers) < MaxWrappers
  /\ CameraBuilt("PerspectiveCamera", PerspectiveCamera_init,
        IF PerspectiveCamera_init.raised THEN NewData("CAMERA")
        ELSE [NewData("CAMERA") EXCEPT !.type = "PERSP", !.lens = focal_length],
        [NewWrapper("PerspectiveCamera", Len(natives) + 1, Len(datablocks) + 1)
           EXCEPT !.focal_length = Interface_scalar_stored(focal_length)])
  /\ UNCHANGED geometries
  /\ CtorUnchanged

\* OrthographicCamera.__init__: the interface initializer runs before
\* Camera.__init__ creates the native camera.
OrthographicCamera_init ==
  LET i == Interface_Object3D_init(FALSE)
      c == Camera_init
  IN IF i.raised
     THEN [events |-> <<Ev("iface_init", "interface.OrthographicCamera.__init__")>> \o i.events,
           raised |-> TRUE, created |-> FALSE]
     ELSE [events |-> <<Ev("iface_init", "interface.OrthographicCamera.__init__")>> \o i.events
                      \o c.events
                      \o (IF c.raised THEN <<>>
                          ELSE <<Ev("backend", "camera.type"), Ev("backend", "camera.ortho_scale")>>),
           raised |-> c.raised, created |-> TRUE]

OrthographicCamera(frustum) ==
  /\ Len(natives) < MaxNatives
  /\ Len(wrappers) < MaxWrappers
  /\ LET chain == OrthographicCamera_init
     IN IF ~chain.created
        THEN /\ lastCtor' = [NoCtor EXCEPT !.cls = "OrthographicCamera", !.raised = TRUE,
                                           !.trace = chain.events]
             /\ UNCHANGED <<natives, datablocks, wrappers, lastWriter>>
        ELSE CameraBuilt("OrthographicCamera", chain,
               IF chain.raised THEN NewData("CAMERA")
               ELSE [NewData("CAMERA") EXCEPT !.type = "ORTHO",
                                              !.ortho_scale = frustum[2] - frustum[1]],
               [NewWrapper("OrthographicCamera", Len(natives) + 1, Len(datablocks) + 1)
                  EXCEPT !.frustum = frustum])
  /\ UNCHANGED geometries
  /\ CtorUnchanged

\* ================================================================ lights
DirectionalLight_set_color_write(self, value) ==
  [value |-> SubSeq(self.color, 1, 3), source |-> "interface"]

DirectionalLight_set_intensity_write(self, value) ==
  [value |-> self.intensity, source |-> "interface"]

DirectionalLight_set_shadow_softness_write(self, value) ==
  [value |-> self.shadow_softness, source |-> "interface"]

RectAreaLight_set_width_write(self, value) == [value |-> value, source |-> "argument"]

RectAreaLight_set_height_write(self, value) == [value |-> value, source |-> "argument"]

RectAreaLight_set_color_write(self, value) ==
  [value |-> SubSeq(self.color, 1, 3), source |-> "interface"]

RectAreaLight_set_intensity_write(self, value) ==
  [value |-> self.intensity, source |-> "interface"]

\* A light setter override applied to the wrapper and its light resource:
\* super()._set_x(value), then the write to self.sun / self.area.
LightSet(l, prop, field, value, stored, Write(_, _)) ==
  LET self == [l.self EXCEPT ![prop] = stored]
      w == Write(self, value)
  IN [self |-> self, data |-> [l.data EXCEPT ![field] = w.value],
      set |-> [target |-> self.cls, prop |-> prop, obj |-> 0, source |-> w.source,
               raised |-> FALSE, arg |-> <<value>>, stored |-> <<self[prop]>>,
               written |-> <<w.value>>]]

DirectionalLight_set_color(l, value) ==
  LightSet(l, "color", "color", value, Interface_color_stored(value),
           DirectionalLight_set_color_write)

DirectionalLight_set_intensity(l, value) ==
  LightSet(l, "intensity", "energy", value, Interface_scalar_stored(value),
           DirectionalLight_set_intensity_write)

DirectionalLight_set_shadow_softness(l, value) ==
  LightSet(l, "shadow_softness", "angle", value, Interface_scalar_stored(value),
           DirectionalLight_set_shadow_softness_write)

RectAreaLight_set_width(l, value) ==
  LightSet(l, "width", "size", value, Interface_scalar_stored(value),
           RectAreaLight_set_width_write)

RectAreaLight_set_height(l, value) ==
  LightSet(l, "height", "size_y", value, Interface_scalar_stored(value),
           RectAreaLight_set_height_write)

RectAreaLight_set_color(l, value) ==
  LightSet(l, "color", "color", value, Interface_color_stored(value),
           RectAreaLight_set_color_write)

RectAreaLight_set_intensity(l, value) ==
  LightSet(l, "intensity", "energy", value, Interface_scalar_stored(value),
           RectAreaLight_set_intensity_write)

LightProps == {"color", "intensity", "shadow_softness", "width", "height"}

LightArgs(prop) == IF prop = "color" THEN ColorArgs ELSE ScalarArgs

\* The setter override that an assignment to a light's property reaches.
LightDispatch(l, prop, value) ==
  IF l.self.cls = "DirectionalLight"
  THEN CASE prop = "color" -> DirectionalLight_set_color(l, value)
         [] prop = "intensity" -> DirectionalLight_set_intensity(l, value)
         [] OTHER -> DirectionalLight_set_shadow_softness(l, value)
  ELSE CASE prop = "color" -> RectAreaLight_set_color(l, value)
         [] prop = "intensity" -> RectAreaLight_set_intensity(l, value)
         [] prop = "width" -> RectAreaLight_set_width(l, value)
         [] OTHER -> RectAreaLight_set_height(l, value)

HasLightProp(cls, prop) ==
  \/ cls = "DirectionalLight" /\ prop \in {"color", "intensity", "shadow_softness"}
  \/ cls = "RectAreaLight" /\ prop \in {"color", "intensity", "width", "height"}

\* light.prop = value on an existing DirectionalLight or RectAreaLight.
Light_set(o, prop, value) ==
  /\ HasLightProp(wrappers[o].cls, prop)
  /\ LET r == LightDispatch([self |-> wrappers[o], data |-> datablocks[wrappers[o].data]],
                            prop, value)
     IN /\ wrappers' = [wrappers EXCEPT ![o] = r.self]
        /\ datablocks' = [datablocks EXCEPT ![wrappers[o].data] = r.data]
        /\ lastSet' = [r.set EXCEPT !.obj = o]
  /\ UNCHANGED <<ifaceInitUsesSetters, natives, geometries, keyframes, lastWriter, sceneVars, lastBg>>
  /\ AfterSet

\* The native state a light constructor leaves: the light resource and its
\* object are created first, then Object3D.__init__ and the interface
\* initializer, which assigns the photometric properties through the setters.
LightBuilt(cls, kind, setters, l) ==
  LET init == Object3D_init
      events == <<Ev("native", "bpy.data.lights.new"), Ev("native", "bpy.data.objects.new")>>
                \o init.events
                \o (IF init.raised THEN <<>>
                    ELSE <<Ev("iface_init", "interface." \o cls \o ".__init__")>> \o setters)
  IN /\ Len(natives) < MaxNatives
     /\ Len(wrappers) < MaxWrappers
     /\ datablocks' = Append(datablocks, IF init.raised THEN NewData(kind) ELSE l.data)
     /\ natives' = Append(natives,
           [NewNative(kind, Len(datablocks) + 1)
              EXCEPT !.name = IF kind = "SUN" THEN "Sun" ELSE "Area",
                     !.rotation_mode = IF init.raised THEN @ ELSE "QUATERNION"])
     /\ lastWriter' = Append(lastWriter, NoWriter)
     /\ wrappers' = IF init.raised THEN wrappers ELSE Append(wrappers, l.self)
     /\ lastCtor' = [NoCtor EXCEPT !.cls = cls, !.raised = init.raised, !.trace = events,
                                   !.wrapper = IF init.raised THEN 0 ELSE Len(wrappers) + 1]
     /\ UNCHANGED geometries
     /\ CtorUnchanged

DirectionalLight(color, intensity, shadow_softness) ==
  LET l0 == [self |-> NewWrapper("DirectionalLight", Len(natives) + 1, Len(datablocks) + 1),
             data |-> NewData("SUN")]
      l1 == DirectionalLight_set_color(l0, color)
      l2 == DirectionalLight_set_intensity(l1, intensity)
      l3 == DirectionalLight_set_shadow_softness(l2, shadow_softness)
  IN LightBuilt("DirectionalLight", "SUN",
                <<Ev("setter", "DirectionalLight._set_color"),
                  Ev("setter", "DirectionalLight._set_intensity"),
                  Ev("setter", "DirectionalLight._set_shadow_softness")>>, l3)

RectAreaLight(color, intensity, width, height) ==
  LET l0 == [self |-> NewWrapper("RectAreaLight", Len(natives) + 1, Len(datablocks) + 1),
             data |-> [NewData("AREA") EXCEPT !.shape = "RECTANGLE"]]
      l1 == RectAreaLight_set_color(l0, color)
      l2 == RectAreaLight_set_intensity(l1, intensity)
      l3 == RectAreaLight_set_width(l2, width)
      l4 == RectAreaLight_set_height(l3, height)
  IN LightBuilt("RectAreaLight", "AREA",
                <<Ev("setter", "RectAreaLight._set_color"),
                  Ev("setter", "RectAreaLight._set_intensity"),
                  Ev("setter", "RectAreaLight._set_width"),
                  Ev("setter", "RectAreaLight._set_height")>>, l4)

\* ============================================================ geometries
NewGeometry(kind, native) == [kind |-> kind, native |-> native, created |-> IF native = 0 THEN 0 ELSE 1]

GeomUnchanged ==
  UNCHANGED <<ifaceInitUsesSetters, datablocks, wrappers, keyframes, sceneVars, lastBg>> /\ AfterCtor

\* A geometry constructor that passed its assertion: the primitive operator
\* creates a native object, which the geometry keeps as _blender_object.
PrimitiveBuilt(cls, kind) ==
  /\ natives' = Append(natives, NewNative("MESH", 0))
  /\ lastWriter' = Append(lastWriter, NoWriter)
  /\ geometries' = Append(geometries, NewGeometry(kind, Len(natives) + 1))
  /\ lastCtor' = [NoCtor EXCEPT !.cls = cls, !.geometry = Len(geometries) + 1,
                     !.trace = <<Ev("native", "bpy.ops.mesh.primitive_add")>>]

GeometryRaised(cls) ==
  /\ lastCtor' = [NoCtor EXCEPT !.cls = cls, !.raised = TRUE,
                                !.trace = <<Ev("raise", "AssertionError")>>]
  /\ UNCHANGED <<natives, lastWriter, geometries>>

BoxGeometry(width, height, depth) ==
  /\ Len(natives) < MaxNatives
  /\ Len(geometries) < MaxGeometries
  /\ IF width = height /\ width = depth
     THEN PrimitiveBuilt("BoxGeometry", "box")
     ELSE GeometryRaised("BoxGeometry")
  /\ GeomUnchanged

PlaneGeometry(widthSegments, heightSegments) ==
  /\ Len(natives) < MaxNatives
  /\ Len(geometries) < MaxGeometries
  /\ IF widthSegments = 1 /\ heightSegments = 1
     THEN PrimitiveBuilt("PlaneGeometry", "plane")
     ELSE GeometryRaised("PlaneGeometry")
  /\ GeomUnchanged

\* BufferGeometry.__init__: no native object is created.
BufferGeometry ==
  /\ Len(geometries) < MaxGeometries
  /\ geometries' = Append(geometries, NewGeometry("buffer", 0))
  /\ lastCtor' = [NoCtor EXCEPT !.cls = "BufferGeometry", !.geometry = Len(geometries) + 1]
  /\ UNCHANGED <<natives, lastWriter>>
  /\ GeomUnchanged

\* ================================================================== Mesh
\* hasattr(geometry, "_blender_object")
Mesh_reuses(geometry) == geometry.native # 0

\* Mesh.__init__: the interface initializer, then Object3D.__init__ on the
\* geometry's native object or on a freshly added one, then the buffers and
\* the material.
Mesh_init ==
  LET i == Interface_Object3D_init(FALSE)
      o == Object3D_init
  IN IF i.raised
     THEN [events |-> <<Ev("iface_init", "interface.Mesh.__init__")>> \o i.events,
           raised |-> TRUE]
     ELSE [events |-> <<Ev("iface_init", "interface.Mesh.__init__")>> \o i.events
                      \o <<Ev("native", "geometry._blender_object or bpy.ops.object.add")>>
                      \o o.events
                      \o (IF o.raised THEN <<>> ELSE <<Ev("backend", "materials.append")>>),
           raised |-> o.raised]

Mesh(g) ==
  /\ Len(wrappers) < MaxWrappers
  /\ LET chain == Mesh_init
         reuse == Mesh_reuses(geometries[g])
         n == IF reuse THEN geometries[g].native ELSE Len(natives) + 1
         base == IF reuse THEN natives ELSE Append(natives, NewNative("MESH", 0))
     IN /\ reuse \/ Len(natives) < MaxNatives
        /\ IF chain.raised
           THEN /\ lastCtor' = [NoCtor EXCEPT !.cls = "Mesh", !.raised = TRUE,
                                              !.trace = chain.events]
                /\ UNCHANGED <<natives, wrappers, geometries, lastWriter>>
           ELSE /\ natives' = [base EXCEPT ![n].rotation_mode = "QUATERNION",
                                           ![n].mesh_data = @ \/ geometries[g].kind = "buffer",
                                           ![n].materials = @ + 1]
                /\ lastWriter' = IF reuse THEN lastWriter ELSE Append(lastWriter, NoWriter)
                /\ geometries' = [geometries EXCEPT ![g].created = IF reuse THEN @ ELSE @ + 1]
                /\ wrappers' = Append(wrappers,
                                      [NewWrapper("Mesh", n, 0) EXCEPT !.geometry = g])
                /\ lastCtor' = [NoCtor EXCEPT !.cls = "Mesh", !.geometry = g, !.reused = reuse,
                                              !.wrapper = Len(wrappers) + 1,
                                              !.trace = chain.events]
  /\ UNCHANGED datablocks
  /\ CtorUnchanged

\* ================================================================= Scene
FrameArgs == {0, 1, 2}

Scene_set_frame_start_write(self, value) == [value |-> value, source |-> "argument"]

Scene_set_frame_end_write(self, value) == [value |-> value, source |-> "argument"]

\* A frame-range setter override of Scene: super()._set_x(value), then the
\* write to bpy.context.scene.
SceneSet(prop, value, Write(_, _)) ==
  LET self == [scene EXCEPT !["iface_" \o prop] = Interface_scalar_stored(value)]
      w == Write(self, value)
  IN /\ scene' = [self EXCEPT ![prop] = w.value]
     /\ lastSet' = [target |-> "Scene", prop |-> prop, obj |-> 0, source |-> w.source,
                    raised |-> FALSE, arg |-> <<value>>,
                    stored |-> <<self["iface_" \o prop]>>, written |-> <<w.value>>]
     /\ UNCHANGED <<ifaceInitUsesSetters, objVars, render, world, ambient, handlers, lastBg>>
     /\ AfterSet

Scene_set_frame_start(value) == SceneSet("frame_start", value, Scene_set_frame_start_write)

Scene_set_frame_end(value) == SceneSet("frame_end", value, Scene_set_frame_end_write)

\* Scene.add: links the wrapper's native object into the scene collection
\* (Blender refuses an object that is already linked).
Scene_add(o) ==
  /\ wrappers[o].native \notin scene.linked
  /\ scene' = [scene EXCEPT !.linked = @ \cup {wrappers[o].native}]
  /\ UNCHANGED <<ifaceInitUsesSetters, objVars, render, world, ambient, handlers, lastBg>>
  /\ AfterOther

\* ========================================================== AmbientLight
\* tree.nodes["Background"]: the Background shader that holds the base name.
HasBackgroundNode(tree) ==
  \E nd \in tree.nodes : nd.type = "ShaderNodeBackground" /\ nd.idx = 0

SetBackgroundInput(tree, field, value) ==
  [tree EXCEPT !.nodes = {IF nd.type = "ShaderNodeBackground" /\ nd.idx = 0
                          THEN [nd EXCEPT ![field] = value] ELSE nd : nd \in @}]

AmbientLight_set_color_write(self, value) == [value |-> self.color, source |-> "interface"]

AmbientLight_set_intensity_write(self, value) == [value |-> self.intensity, source |-> "interface"]

\* A setter override of AmbientLight: super()._set_x(value), then the write
\* to the world's Background node, which raises if there is no such node.
AmbientSet(prop, field, value, stored, Write(_, _)) ==
  LET self == [ambient EXCEPT ![prop] = stored]
      w == Write(self, value)
  IN /\ ambient' = self
     /\ IF HasBackgroundNode(world)
        THEN /\ world' = SetBackgroundInput(world, field, w.value)
             /\ lastSet' = [target |-> "AmbientLight", prop |-> prop, obj |-> 0,
                            source |-> w.source, raised |-> FALSE, arg |-> <<value>>,
                            stored |-> <<self[prop]>>, written |-> <<w.value>>]
        ELSE /\ lastSet' = [NoSet EXCEPT !.target = "AmbientLight", !.prop = prop,
                                         !.raised = TRUE, !.arg = <<value>>]
             /\ UNCHANGED world
     /\ UNCHANGED <<ifaceInitUsesSetters, objVars, scene, render, handlers, lastBg>>
     /\ AfterSet

AmbientLight_set_color(value) ==
  /\ ambient.exists
  /\ AmbientSet("color", "color", value, Interface_color_stored(value),
                AmbientLight_set_color_write)

AmbientLight_set_intensity(value) ==
  /\ ambient.exists
  /\ AmbientSet("intensity", "strength", value, Interface_scalar_stored(value),
                AmbientLight_set_intensity_write)

\* AmbientLight.__init__: the interface initializer assigns colour and
\* intensity through the setters; without a Background node the first
\* setter raises and no light results.
AmbientLight(color, intensity) ==
  /\ ~ambient.exists
  /\ IF HasBackgroundNode(world)
     THEN /\ ambient' = [exists |-> TRUE, color |-> Interface_color_stored(color),
                         intensity |-> Interface_scalar_stored(intensity)]
          /\ world' = SetBackgroundInput(
                        SetBackgroundInput(world, "color", Interface_color_stored(color)),
                        "strength", Interface_scalar_stored(intensity))
          /\ lastCtor' = [NoCtor EXCEPT !.cls = "AmbientLight",
                            !.trace = <<Ev("iface_init", "interface.AmbientLight.__init__"),
                                        Ev("world", "AmbientLight._set_color"),
                                        Ev("world", "AmbientLight._set_intensity")>>]
     ELSE /\ lastCtor' = [NoCtor EXCEPT !.cls = "AmbientLight", !.raised = TRUE,
                            !.trace = <<Ev("iface_init", "interface.AmbientLight.__init__"),
                                        Ev("world", "AmbientLight._set_color"),
                                        Ev("raise", "KeyError: Background")>>]
          /\ UNCHANGED <<ambient, world>>
  /\ UNCHANGED <<ifaceInitUsesSetters, objVars, scene, render, handlers, lastBg>>
  /\ AfterCtor

\* ============================================================== Renderer
RenderUnchanged == UNCHANGED <<ifaceInitUsesSetters, objVars, ambient>>

Renderer_set_background_transparent(film_transparent) ==
  /\ render' = [render EXCEPT !.film_transparent = film_transparent]
  /\ UNCHANGED <<scene, world, handlers, lastBg>>
  /\ RenderUnchanged
  /\ AfterOther

Sizes == {2, 4}

\* Renderer.set_size: the interface stores width and height, which are then
\* pushed to the render resolution.
Renderer_set_size(width, height) ==
  /\ render' = [render EXCEPT !.width = width, !.height = height,
                              !.resolution_x = width, !.resolution_y = height]
  /\ UNCHANGED <<scene, world, handlers, lastBg>>
  /\ RenderUnchanged
  /\ AfterOther

\* ---------------------------------------------------- set_up_background
Ref(nd) == <<nd.type, nd.idx>>

\* The suffix Blender gives a new node's name: the first one free for its type.
FreshIdx(tree, type) ==
  CHOOSE k \in 0..Cardinality(tree.nodes) :
    /\ ~\E nd \in tree.nodes : Ref(nd) = <<type, k>>
    /\ \A j \in 0..(k - 1) : \E nd \in tree.nodes : Ref(nd) = <<type, j>>

\* tree.nodes.new(type)
NodesNew(tree, type) == [tree EXCEPT !.nodes = @ \cup {Node(type, FreshIdx(tree, type))}]

\* tree.links.new(output socket, input socket): an input socket holds one link.
LinksNew(tree, from, out, to, inp) ==
  [tree EXCEPT !.links = {l \in @ : ~(l.to = to /\ l.inp = inp)}
                         \cup {Link(from, out, to, inp)}]

SetNode(tree, ref, field, value) ==
  [tree EXCEPT !.nodes = {IF Ref(nd) = ref THEN [nd EXCEPT ![field] = value] ELSE nd : nd \in @}]

ClearTree_keep(tree) == tree

\* "clear the tree": every node is removed, and Blender drops a removed
\* node's links with it.
ClearTree(tree) ==
  LET gone == {Ref(nd) : nd \in tree.nodes}
  IN [nodes |-> {nd \in tree.nodes : Ref(nd) \notin gone},
      links |-> {l \in tree.links : l.from \notin gone /\ l.to \notin gone}]

\* Lines 449-461: the HDRI chain up to the image load.
HdriNodes(t0, out) ==
  LET coord == <<"ShaderNodeTexCoord", FreshIdx(t0, "ShaderNodeTexCoord")>>
      t1 == NodesNew(t0, "ShaderNodeTexCoord")
      mapping == <<"ShaderNodeMapping", FreshIdx(t1, "ShaderNodeMapping")>>
      t2 == NodesNew(t1, "ShaderNodeMapping")
      hdri == <<"ShaderNodeTexEnvironment", FreshIdx(t2, "ShaderNodeTexEnvironment")>>
      t3 == NodesNew(t2, "ShaderNodeTexEnvironment")
      light_bg == <<"ShaderNodeBackground", FreshIdx(t3, "ShaderNodeBackground")>>
      t4 == NodesNew(t3, "ShaderNodeBackground")
      t5 == LinksNew(t4, coord, "Generated", mapping, "Vector")
      t6 == LinksNew(t5, mapping, "Vector", hdri, "Vector")
      t7 == LinksNew(t6, hdri, "Color", light_bg, "Color")
  IN [tree |-> t7, mapping |-> mapping, hdri |-> hdri, light_bg |-> light_bg]

\* Lines 463-470: the image, the rotation, and the link to the output when
\* there is no background colour.
HdriFinish(h, out, hdri_filepath, bg_color, hdri_rotation) ==
  LET t1 == SetNode(h.tree, h.hdri, "image", hdri_filepath)
      t2 == SetNode(t1, h.mapping, "rotation", hdri_rotation)
  IN IF bg_color = NoVec
     THEN LinksNew(t2, h.light_bg, "Background", out, "Surface")
     ELSE t2

\* Lines 472-480: the flat background shader.
ColorNodes(t0, out, hdri_filepath, bg_color) ==
  LET camera_bg == <<"ShaderNodeBackground", FreshIdx(t0, "ShaderNodeBackground")>>
      t1 == NodesNew(t0, "ShaderNodeBackground")
      t2 == SetNode(t1, camera_bg, "color", bg_color)
  IN [tree |-> IF hdri_filepath = "none"
               THEN LinksNew(t2, camera_bg, "Background", out, "Surface")
               ELSE t2,
      camera_bg |-> camera_bg]

\* Lines 482-492: the mix of both backgrounds, gated by the light path.
MixNodes(t0, out, light_bg, camera_bg) ==
  LET mix == <<"ShaderNodeMixShader", FreshIdx(t0, "ShaderNodeMixShader")>>
      t1 == NodesNew(t0, "ShaderNodeMixShader")
      lightpath == <<"ShaderNodeLightPath", FreshIdx(t1, "ShaderNodeLightPath")>>
      t2 == NodesNew(t1, "ShaderNodeLightPath")
      t3 == LinksNew(t2, lightpath, "Is Camera Ray", mix, "Fac")
      t4 == LinksNew(t3, light_bg, "Background", mix, "1")
      t5 == LinksNew(t4, camera_bg, "Background", mix, "2")
  IN LinksNew(t5, mix, "Shader", out, "Surface")

HdriArgs == {"none", "a.hdr", "b.hdr"}
BgColorArgs == {NoVec, <<0, 0, 0, 0>>, <<1, 1, 1, 1>>}
RotationArgs == {<<0, 0, 0>>}

set_up_background_precondition_none(hdri_filepath, bg_color) == TRUE

\* Line 435: assert hdri_filepath is not None or bg_color is not None
set_up_background_precondition(hdri_filepath, bg_color) ==
  hdri_filepath # "none" \/ bg_color # NoVec

\* Renderer.set_up_background.  loads: whether bpy.data.images.load finds
\* the file; if not it raises with the graph half built.  lastBg.cleared
\* records the nodes the call removed.
Renderer_set_up_background(hdri_filepath, bg_color, hdri_rotation, loads) ==
  /\ IF ~set_up_background_precondition(hdri_filepath, bg_color)
     THEN /\ lastBg' = [called |-> TRUE, raised |-> TRUE, hdri |-> hdri_filepath,
                        bg |-> bg_color, cleared |-> {}]
          /\ UNCHANGED world
     ELSE LET cleared == ClearTree(world)
              removed == {Ref(nd) : nd \in world.nodes} \ {Ref(nd) : nd \in cleared.nodes}
              out == <<"ShaderNodeOutputWorld", FreshIdx(cleared, "ShaderNodeOutputWorld")>>
              t0 == NodesNew(cleared, "ShaderNodeOutputWorld")
              h == HdriNodes(t0, out)
          IN IF hdri_filepath # "none" /\ ~loads
             THEN /\ world' = h.tree
                  /\ lastBg' = [called |-> TRUE, raised |-> TRUE, hdri |-> hdri_filepath,
                                bg |-> bg_color, cleared |-> removed]
             ELSE LET t1 == IF hdri_filepath # "none"
                            THEN HdriFinish(h, out, hdri_filepath, bg_color, hdri_rotation)
                            ELSE t0
                      c == ColorNodes(t1, out, hdri_filepath, bg_color)
                      t2 == IF bg_color # NoVec THEN c.tree ELSE t1
                      t3 == IF hdri_filepath # "none" /\ bg_color # NoVec
                            THEN MixNodes(t2, out, h.light_bg, c.camera_bg)
                            ELSE t2
                  IN /\ world' = t3
                     /\ lastBg' = [called |-> TRUE, raised |-> FALSE, hdri |-> hdri_filepath,
                                   bg |-> bg_color, cleared |-> removed]
  /\ UNCHANGED <<scene, render, handlers>>
  /\ RenderUnchanged
  /\ AfterOther

\* ---------------------------------------------------------------- render
\* int(a / b): Python truncates towards zero.
TruncDiv(a, b) ==
  LET q == Abs(a) \div Abs(b)
  IN IF (a < 0) = (b < 0) THEN q ELSE -q

Stems == {"out"}
Suffixes == {".blend", ".mov", ".png", ""}
Callbacks == {0, 1}

EndsWith(path, suffix) == path[2] = suffix

AdjustedResolutionY_inverse(camera, r) ==
  IF camera.cls = "OrthographicCamera"
  THEN TruncDiv(r.resolution_x * (camera.frustum[2] - camera.frustum[1]),
                camera.frustum[3] - camera.frustum[4])
  ELSE r.resolution_y

\* Lines 496-503: an orthographic camera's aspect decides the vertical resolution.
AdjustedResolutionY(camera, r) ==
  IF camera.cls = "OrthographicCamera"
  THEN TruncDiv(r.resolution_x * (camera.frustum[3] - camera.frustum[4]),
                camera.frustum[2] - camera.frustum[1])
  ELSE r.resolution_y

\* Lines 516-524: the movie branch asserts, then configures the encoder.
MovieBranch_configure_first(r) ==
  [ops |-> <<"image_settings.file_format", "image_settings.color_mode", "ffmpeg.format",
             "ffmpeg.codec">> \o (IF r.film_transparent THEN <<"raise">> ELSE <<>>),
   raised |-> r.film_transparent,
   render |-> [r EXCEPT !.file_format = "FFMPEG", !.color_mode = "RGB",
                        !.ffmpeg_format = "QUICKTIME", !.ffmpeg_codec = "H264"]]

MovieBranch(r) ==
  IF r.film_transparent
  THEN [ops |-> <<"raise">>, raised |-> TRUE, render |-> r]
  ELSE [ops |-> <<"image_settings.file_format", "image_settings.color_mode", "ffmpeg.format",
                  "ffmpeg.codec">>,
        raised |-> FALSE,
        render |-> [r EXCEPT !.file_format = "FFMPEG", !.color_mode = "RGB",
                             !.ffmpeg_format = "QUICKTIME", !.ffmpeg_codec = "H264"]]

RenderBranch_png_animation(path) ==
  CASE EndsWith(path, ".blend") -> "blend"
    [] EndsWith(path, ".mov") -> "mov"
    [] OTHER -> "sequence"

\* Lines 512, 517, 527, 532: the branch the path's suffix selects.
RenderBranch(path) ==
  CASE EndsWith(path, ".blend") -> "blend"
    [] EndsWith(path, ".mov") -> "mov"
    [] EndsWith(path, ".png") -> "png"
    [] OTHER -> "sequence"

Renderer_render(o, path, on_render_write) ==
  /\ on_render_write = 0 \/ Len(handlers) < MaxHandlers
  /\ LET camera == wrappers[o]
         branch == RenderBranch(path)
         new_y_res == AdjustedResolutionY(camera, render)
         r1 == [render EXCEPT !.resolution_y = new_y_res]
         r2 == IF ~EndsWith(path, ".blend") THEN [r1 EXCEPT !.filepath = path[1] \o path[2]] ELSE r1
         pre == (IF new_y_res # render.resolution_y THEN <<"resolution_y">> ELSE <<>>)
                \o <<"scene.camera">>
                \o (IF ~EndsWith(path, ".blend") THEN <<"render.filepath">> ELSE <<>>)
         mov == MovieBranch(r2)
         appended == IF branch = "sequence" /\ on_render_write # 0
                     THEN Append(handlers, on_render_write) ELSE handlers
     IN /\ scene' = [scene EXCEPT !.camera = camera.native]
        /\ render' = CASE branch = "blend" -> [r2 EXCEPT !.view_perspective = "CAMERA"]
                       [] branch = "mov" -> mov.render
                       [] OTHER -> r2
        /\ handlers' = appended
        /\ renderLog' =
             [suffix |-> path[2], camera |-> o, callback |-> on_render_write,
              raised |-> branch = "mov" /\ mov.raised,
              ops |-> pre \o
                CASE branch = "blend" -> <<"default_camera_view", "wm.save_mainfile">>
                  [] branch = "mov" -> mov.ops
                  [] branch = "png" -> <<"render.render(animation=False)">>
                  [] OTHER -> (IF on_render_write # 0 THEN <<"handlers.render_write.append">>
                               ELSE <<>>) \o <<"render.render(animation=True)">>,
              frames |-> CASE branch = "png" -> <<"current">>
                           [] branch = "sequence" -> <<scene.frame_start, scene.frame_end>>
                           [] OTHER -> <<>>,
              callbacks |-> IF branch \in {"png", "sequence"} THEN appended ELSE <<>>]
  /\ UNCHANGED <<world, lastBg>>
  /\ RenderUnchanged
  /\ AfterRender

\* ======================================================== specifications
Objs == 1..Len(wrappers)

ConstructObject ==
  \/ \E k \in {0, 1, 2}, name \in ObjNames : Scene_add_from_file(k, name)
  \/ Camera
  \/ \E focal_length \in {35} : PerspectiveCamera(focal_length)
  \/ \E frustum \in Frustums : OrthographicCamera(frustum)

ConstructLight ==
  \/ \E color \in ColorArgs, intensity \in ScalarArgs :
       DirectionalLight(color, intensity, 1)
  \/ \E color \in ColorArgs, width \in ScalarArgs, height \in ScalarArgs :
       RectAreaLight(color, 1, width, height)
  \/ \E color \in ColorArgs, intensity \in ScalarArgs : AmbientLight(color, intensity)

ConstructMesh ==
  \/ \E width \in {1, 2}, height \in {1, 2} : BoxGeometry(width, height, 1)
  \/ \E widthSegments \in {1, 2} : PlaneGeometry(widthSegments, 1)
  \/ BufferGeometry
  \/ \E g \in 1..Len(geometries) : Mesh(g)

SetTransforms ==
  \/ \E o \in Objs, value \in Vec3Args : Object3D_set_position(o, value)
  \/ \E o \in Objs, value \in ScaleArgs : Object3D_set_scale(o, value)
  \/ \E o \in Objs, value \in QuatArgs : Object3D_set_quaternion(o, value)

InsertKeyframe ==
  \E o \in Objs, member \in Members, frame \in Frames : Object3D_keyframe_insert(o, member, frame)

SetLights ==
  \/ \E o \in Objs, prop \in LightProps : \E value \in LightArgs(prop) : Light_set(o, prop, value)
  \/ \E value \in ColorArgs : AmbientLight_set_color(value)
  \/ \E value \in ScalarArgs : AmbientLight_set_intensity(value)

SetScene ==
  \/ \E value \in FrameArgs : Scene_set_frame_start(value)
  \/ \E value \in FrameArgs : Scene_set_frame_end(value)
  \/ \E o \in Objs : Scene_add(o)

ConfigureRenderer ==
  \/ \E film_transparent \in BOOLEAN : Renderer_set_background_transparent(film_transparent)
  \/ \E width \in Sizes, height \in Sizes : Renderer_set_size(width, height)

SetUpBackground ==
  \E hdri_filepath \in HdriArgs, bg_color \in BgColorArgs, hdri_rotation \in RotationArgs,
     loads \in BOOLEAN :
    Renderer_set_up_background(hdri_filepath, bg_color, hdri_rotation, loads)

Render ==
  \E o \in Objs, stem \in Stems, suffix \in Suffixes, on_render_write \in Callbacks :
    Renderer_render(o, <<stem, suffix>>, on_render_write)

\* Constructor chains.
NextConstruct ==
  \/ ConstructObject
  \/ ConstructLight
  \/ ConstructMesh

SpecConstruct == Init /\ [][NextConstruct]_vars

\* The setter overrides of the lights and of the scene.
NextSetters ==
  \/ DirectionalLight(197379, 1, 1)
  \/ RectAreaLight(197379, 1, 1, 1)
  \/ AmbientLight(197379, 1)
  \/ \E o \in Objs, prop \in LightProps :
       Light_set(o, prop, IF prop = "color" THEN 16777215 ELSE 2)
  \/ AmbientLight_set_color(16777215)
  \/ AmbientLight_set_intensity(2)
  \/ \E value \in {0, 2} : Scene_set_frame_start(value)
  \/ \E value \in {0, 2} : Scene_set_frame_end(value)

SpecSetters == Init /\ [][NextSetters]_vars

\* Imported objects and meshes, and their transforms.
NextTransform ==
  \/ Scene_add_from_file(1, "")
  \/ BoxGeometry(1, 1, 1)
  \/ BufferGeometry
  \/ \E g \in 1..Len(geometries) : Mesh(g)
  \/ \E o \in Objs, value \in Vec3Args : Object3D_set_position(o, value)
  \/ \E o \in Objs, value \in {<<2, 2, 2>>} : Object3D_set_scale(o, value)
  \/ \E o \in Objs, value \in {<<0, 2, 0, 0>>, <<0, 0, 0, 0>>} : Object3D_set_quaternion(o, value)

SpecTransform == Init /\ [][NextTransform]_vars

\* Meshes, their position and orientation, and keyframes.
NextKeyframe ==
  \/ BoxGeometry(1, 1, 1)
  \/ \E g \in 1..Len(geometries) : Mesh(g)
  \/ \E o \in Objs, value \in {<<1, 2, 3>>, <<0, 0, 0>>} : Object3D_set_position(o, value)
  \/ \E o \in Objs, value \in {<<0, 2, 0, 0>>} : Object3D_set_quaternion(o, value)
  \/ InsertKeyframe

SpecKeyframe == Init /\ [][NextKeyframe]_vars

\* The renderer's output branches.
NextRender ==
  \/ \E focal_length \in {35} : PerspectiveCamera(focal_length)
  \/ \E frustum \in Frustums : OrthographicCamera(frustum)
  \/ \E film_transparent \in BOOLEAN : Renderer_set_background_transparent(film_transparent)
  \/ \E width \in Sizes : Renderer_set_size(width, 2)
  \/ Render

SpecRender == Init /\ [][NextRender]_vars

\* The world shading graph.
NextBackground ==
  \/ SetUpBackground
  \/ \E color \in ColorArgs, intensity \in ScalarArgs : AmbientLight(color, intensity)
  \/ \E value \in ColorArgs : AmbientLight_set_color(value)
  \/ \E value \in ScalarArgs : AmbientLight_set_intensity(value)

SpecBackground == Init /\ [][NextBackground]_vars

\* Frustums of aspect 2 and 3/2, and sizes they do not divide evenly.
OrthoFrustums == {<<-2, 2, 1, -1>>, <<-3, 3, 2, -2>>}
ResolutionSizes == {8, 11}
ResolutionHeights == {5, 8}

\* The orthographic adjustment of the vertical resolution.
NextResolution ==
  \/ \E focal_length \in {35} : PerspectiveCamera(focal_length)
  \/ \E frustum \in OrthoFrustums : OrthographicCamera(frustum)
  \/ \E width \in ResolutionSizes, height \in ResolutionHeights : Renderer_set_size(width, height)
  \/ \E o \in Objs, stem \in Stems, suffix \in Suffixes : Renderer_render(o, <<stem, suffix>>, 0)

SpecResolution == Init /\ [][NextResolution]_vars

\* ---------------------------------------------------------- the driver
\* FLAGS.frame_start, FLAGS.frame_end
DriverFrames == {0, 1, 2}

\* simulator.run: the trajectory of the simulated object, position and
\* XYZW orientation per frame.
SimPosition(frame_id) == <<frame_id + 1, frame_id + 2, frame_id + 3>>

SimOrientQuat(frame_id) == IF frame_id % 2 = 0 THEN <<1, 0, 0, 0>> ELSE <<0, 1, 0, 0>>

\* obj.position, obj.rotation: the pose the object was created with.
SimInitialPosition == <<0, 0, 1>>
SimInitialRotation == <<0, 0, 0, 1>>

\* worker.py 144-147: pyBullet XYZW to Blender WXYZ.
translate_quat(pb_quat) == <<pb_quat[4], pb_quat[1], pb_quat[2], pb_quat[3]>>

\* worker.py 110-114 have run up to the frame range.
InitDriver ==
  /\ InitBackend
  /\ \E frame_start \in DriverFrames, frame_end \in DriverFrames :
       driver = [DriverOff EXCEPT !.pc = "frame_start", !.frame_start = frame_start,
                                  !.frame_end = frame_end]

\* worker.py 113-114
Driver_frame_start == driver.pc = "frame_start" /\ Scene_set_frame_start(driver.frame_start)

Driver_frame_end == driver.pc = "frame_end" /\ Scene_set_frame_end(driver.frame_end)

\* worker.py 119
Driver_camera == driver.pc = "camera" /\ PerspectiveCamera(35)

\* worker.py 157: o = scene.add_from_file(str(obj.vis_filename), name=obj.uid)
Driver_import ==
  /\ driver.pc = "import"
  /\ \E k \in {0, 1, 2} : Scene_add_from_file(k, "uid")

\* worker.py 158-159
Driver_pose_position ==
  driver.pc = "pose_position" /\ Object3D_set_position(driver.obj, SimInitialPosition)

Driver_pose_quaternion ==
  /\ driver.pc = "pose_quaternion"
  /\ Object3D_set_quaternion(driver.obj, translate_quat(SimInitialRotation))

\* worker.py 166-169: the body of the keyframe loop.
Driver_position ==
  driver.pc = "position" /\ Object3D_set_position(driver.obj, SimPosition(driver.frame))

Driver_quaternion ==
  /\ driver.pc = "quaternion"
  /\ Object3D_set_quaternion(driver.obj, translate_quat(SimOrientQuat(driver.frame)))

Driver_keyframe_position ==
  /\ driver.pc = "keyframe_position"
  /\ Object3D_keyframe_insert(driver.obj, "position", driver.frame)

Driver_keyframe_quaternion ==
  /\ driver.pc = "keyframe_quaternion"
  /\ Object3D_keyframe_insert(driver.obj, "quaternion", driver.frame)

\* worker.py 171: renderer.render(scene, camera, path=FLAGS.output)
Driver_render ==
  /\ driver.pc = "render"
  /\ \E stem \in Stems, suffix \in Suffixes : Renderer_render(driver.camera, <<stem, suffix>>, 0)

NextDriver ==
  \/ Driver_frame_start
  \/ Driver_frame_end
  \/ Driver_camera
  \/ Driver_import
  \/ Driver_pose_position
  \/ Driver_pose_quaternion
  \/ Driver_position
  \/ Driver_quaternion
  \/ Driver_keyframe_position
  \/ Driver_keyframe_quaternion
  \/ Driver_render

SpecDriver == InitDriver /\ [][NextDriver]_vars

Next ==
  \/ ConstructObject
  \/ ConstructLight
  \/ ConstructMesh
  \/ SetTransforms
  \/ InsertKeyframe
  \/ SetLights
  \/ SetScene
  \/ ConfigureRenderer
  \/ SetUpBackground
  \/ Render

Spec == Init /\ [][Next]_vars

\* ================================================================ claims
ChannelOf == [position |-> "location", scale |-> "scale", quaternion |-> "rotation_quaternion"]

Natives == 1..Len(natives)

SharesNative(o1, o2) == o1 # o2 /\ wrappers[o1].native = wrappers[o2].native

\* C1 (as claimed): after any sequence of position, scale and quaternion
\* assignments on a wrapper, its native object's location, scale and
\* rotation_quaternion equal the values the wrapper's interface stores for
\* the properties that were assigned.
C1_NativeEqualsInterface ==
  \A o \in Objs : \A prop \in wrappers[o].assigned :
    natives[wrappers[o].native][ChannelOf[prop]] = wrappers[o][prop]

\* C1 (amended): each native channel equals the value stored by the
\* interface of the wrapper that assigned it last on that native object, and
\* a successful position = v stores v and leaves the native location at v.
C1_NativeEqualsLastWriter ==
  /\ \A n \in Natives : \A prop \in DOMAIN ChannelOf :
       LET o == lastWriter[n][ChannelOf[prop]]
       IN o # 0 => /\ wrappers[o].native = n
                   /\ natives[n][ChannelOf[prop]] = wrappers[o][prop]
  /\ (lastSet.target = "Object3D" /\ lastSet.prop = "position" /\ ~lastSet.raised)
       => /\ wrappers[lastSet.obj].position = lastSet.arg[1]
          /\ natives[wrappers[lastSet.obj].native].location = lastSet.arg[1]

\* C1 witness: two wrappers share a native object, each has assigned it, and
\* the native orientation holds the normalised quaternion.
C1_Witness ==
  \E o1 \in Objs, o2 \in Objs :
    /\ SharesNative(o1, o2)
    /\ "position" \in wrappers[o1].assigned
    /\ lastWriter[wrappers[o2].native].rotation_quaternion = o2
    /\ natives[wrappers[o2].native].rotation_quaternion = <<0, 1, 0, 0>>
    /\ natives[wrappers[o1].native].location = <<1, 2, 3>>

\* C2 (as claimed): every setter override writes to the backend the value
\* read back from the interface's stored property, never its raw argument.
C2_SettersWriteStoredValue ==
  (lastSet.target # "none" /\ ~lastSet.raised) => lastSet.source = "interface"

CtorChains == {"add_from_file", "Camera", "PerspectiveCamera", "OrthographicCamera",
               "DirectionalLight", "RectAreaLight", "Mesh"}

C4_OneNativePerGeometry ==
  \A g \in 1..Len(geometries) : geometries[g].created <= 1

AtKey(k, n, path, frame) == k.native = n /\ k.data_path = path /\ k.frame = frame

\* C5 (as claimed): keyframe_insert(member, frame) on an object records, on
\* the mapped channel at the given frame, the value most recently assigned
\* to that property on the object.
C5_KeyframeHoldsAssignedValue ==
  (/\ lastCall.op = "keyframe_insert"
   /\ ~lastCall.raised
   /\ lastCall.member \in wrappers[lastCall.obj].assigned)
  => \E k \in keyframes :
       /\ AtKey(k, wrappers[lastCall.obj].native, ChannelOf[lastCall.member], lastCall.frame)
       /\ k.value = wrappers[lastCall.obj][lastCall.member]

\* C5 (amended): keyframe_insert(member, frame) with member position or
\* quaternion records exactly one keyframe, on the mapped channel of the
\* object's native object at the given frame, holding that channel's
\* current native value, and changes no keyframe elsewhere.
C5_KeyframeHoldsNativeValue ==
  [][(/\ lastCall'.op = "keyframe_insert"
      /\ lastCall'.member \in {"position", "quaternion"})
     => LET n == wrappers[lastCall'.obj].native
            path == ChannelOf[lastCall'.member]
            f == lastCall'.frame
        IN /\ ~lastCall'.raised
           /\ {k \in keyframes' : AtKey(k, n, path, f)}
                = {[native |-> n, data_path |-> path, frame |-> f, value |-> natives[n][path]]}
           /\ {k \in keyframes' : ~AtKey(k, n, path, f)}
                = {k \in keyframes : ~AtKey(k, n, path, f)}]_vars

\* C5 witness: a quaternion keyframe was recorded next to an earlier
\* keyframe, on a native object whose orientation was assigned.
C5_Witness ==
  /\ lastCall.op = "keyframe_insert"
  /\ lastCall.member = "quaternion"
  /\ ~lastCall.raised
  /\ Cardinality(keyframes) = 2
  /\ \E k \in keyframes : k.data_path = "rotation_quaternion" /\ k.value = <<0, 1, 0, 0>>

\* C6: keyframe_insert raises for every member other than position and
\* quaternion, records nothing, and leaves the earlier keyframes in place.
C6_UnknownMemberRaises ==
  [][(/\ lastCall'.op = "keyframe_insert"
      /\ lastCall'.member \notin {"position", "quaternion"})
     => (lastCall'.raised /\ keyframes' = keyframes)]_vars

\* C6 witness: a call with an unknown member raised after a position
\* keyframe was recorded at the same frame, which is still there.
C6_Witness ==
  /\ lastCall.op = "keyframe_insert"
  /\ lastCall.member = "bogus"
  /\ lastCall.raised
  /\ \E k \in keyframes : k.data_path = "location" /\ k.frame = lastCall.frame

RenderOps == {"render.render(animation=False)", "render.render(animation=True)"}

OutputOps == RenderOps \cup {"wm.save_mainfile"}

CodecOps == {"image_settings.file_format", "image_settings.color_mode", "ffmpeg.format",
             "ffmpeg.codec"}

\* The positions of the operations of a set in the last render call.
OpsIn(log, S) == {i \in DOMAIN log.ops : log.ops[i] \in S}

\* C7: render selects its action from the suffix: .blend switches the view to
\* the camera and saves the project, without a render and without touching
\* the render filepath; .png makes exactly one still render; a suffix other
\* than .blend, .mov and .png makes exactly one animation render of the
\* scene's frame range; in every branch the camera's native object was made
\* the scene camera before the action.
C7_RenderDispatch ==
  [][renderLog'.suffix # "none"
     => LET log == renderLog'
            out == OpsIn(log, OutputOps)
        IN /\ scene'.camera = wrappers[log.camera].native
           /\ \A i \in out \cup OpsIn(log, CodecOps \cup {"default_camera_view"}) :
                \E j \in 1..(i - 1) : log.ops[j] = "scene.camera"
           /\ log.suffix = ".blend"
                => /\ Cardinality(out) = 1
                   /\ \E i \in out : /\ log.ops[i] = "wm.save_mainfile"
                                     /\ i > 1
                                     /\ log.ops[i - 1] = "default_camera_view"
                   /\ render'.view_perspective = "CAMERA"
                   /\ render'.filepath = render.filepath
           /\ log.suffix = ".png"
                => /\ Cardinality(out) = 1
                   /\ \E i \in out : log.ops[i] = "render.render(animation=False)"
           /\ log.suffix \notin {".blend", ".mov", ".png"}
                => /\ Cardinality(out) = 1
                   /\ \E i \in out : log.ops[i] = "render.render(animation=True)"
                   /\ log.frames = <<scene.frame_start, scene.frame_end>>]_vars

\* C7 witness: a .png render made one still render through a camera.
C7_Witness ==
  /\ renderLog.suffix = ".png"
  /\ scene.camera # 0
  /\ "render.render(animation=False)" \in {renderLog.ops[i] : i \in DOMAIN renderLog.ops}

\* C8 (as claimed): render to a .mov path with transparency disabled
\* executes the backend render pass after configuring the encoder.
C8_MovieIsRendered ==
  (renderLog.suffix = ".mov" /\ ~renderLog.raised) => OpsIn(renderLog, RenderOps) # {}

\* C9: render to a .mov path while film transparency is enabled raises
\* before any codec or container setting is written and before any render.
C9_TransparentMovieRaisesFirst ==
  [][(renderLog'.suffix = ".mov" /\ render.film_transparent)
     => /\ renderLog'.raised
        /\ OpsIn(renderLog', CodecOps \cup RenderOps) = {}
        /\ render'.file_format = render.file_format
        /\ render'.color_mode = render.color_mode
        /\ render'.ffmpeg_format = render.ffmpeg_format
        /\ render'.ffmpeg_codec = render.ffmpeg_codec]_vars

\* C9 witness: a .mov render raised with transparency enabled.
C9_Witness ==
  /\ renderLog.suffix = ".mov"
  /\ renderLog.raised
  /\ render.film_transparent
  /\ render.file_format = "PNG"

OutputRef == <<"ShaderNodeOutputWorld", 0>>
HdriChain ==
  {Link(<<"ShaderNodeTexCoord", 0>>, "Generated", <<"ShaderNodeMapping", 0>>, "Vector"),
   Link(<<"ShaderNodeMapping", 0>>, "Vector", <<"ShaderNodeTexEnvironment", 0>>, "Vector"),
   Link(<<"ShaderNodeTexEnvironment", 0>>, "Color", <<"ShaderNodeBackground", 0>>, "Color")}
HdriRefs ==
  {OutputRef, <<"ShaderNodeTexCoord", 0>>, <<"ShaderNodeMapping", 0>>,
   <<"ShaderNodeTexEnvironment", 0>>, <<"ShaderNodeBackground", 0>>}

\* The graph the claim describes for the arguments of a call.
ExpectedGraph(hasHdri, hasColor) ==
  CASE hasHdri /\ ~hasColor ->
         [refs |-> HdriRefs,
          links |-> HdriChain \cup
                    {Link(<<"ShaderNodeBackground", 0>>, "Background", OutputRef, "Surface")}]
    [] ~hasHdri /\ hasColor ->
         [refs |-> {OutputRef, <<"ShaderNodeBackground", 0>>},
          links |-> {Link(<<"ShaderNodeBackground", 0>>, "Background", OutputRef, "Surface")}]
    [] OTHER ->
         [refs |-> HdriRefs \cup {<<"ShaderNodeBackground", 1>>, <<"ShaderNodeMixShader", 0>>,
                                  <<"ShaderNodeLightPath", 0>>},
          links |-> HdriChain \cup
                    {Link(<<"ShaderNodeLightPath", 0>>, "Is Camera Ray",
                          <<"ShaderNodeMixShader", 0>>, "Fac"),
                     Link(<<"ShaderNodeBackground", 0>>, "Background",
                          <<"ShaderNodeMixShader", 0>>, "1"),
                     Link(<<"ShaderNodeBackground", 1>>, "Background",
                          <<"ShaderNodeMixShader", 0>>, "2"),
                     Link(<<"ShaderNodeMixShader", 0>>, "Shader", OutputRef, "Surface")}]

\* C10: after a successful set_up_background the world shading graph holds
\* exactly the nodes and links its arguments imply (HDRI only, colour only,
\* or both mixed by Is Camera Ray), nothing of earlier calls; with both, the
\* first Background node carries the HDRI and the second the flat colour.
C10_BackgroundGraphIsLastCall ==
  (lastBg.called /\ ~lastBg.raised)
  => LET e == ExpectedGraph(lastBg.hdri # "none", lastBg.bg # NoVec)
     IN /\ {Ref(nd) : nd \in world.nodes} = e.refs
        /\ Cardinality(world.nodes) = Cardinality(e.refs)
        /\ world.links = e.links
        /\ (lastBg.hdri # "none") =>
             \E nd \in world.nodes : Ref(nd) = <<"ShaderNodeTexEnvironment", 0>>
                                     /\ nd.image = lastBg.hdri
        /\ (lastBg.hdri # "none" /\ lastBg.bg # NoVec) =>
             \E nd \in world.nodes : Ref(nd) = <<"ShaderNodeBackground", 1>>
                                     /\ nd.color = lastBg.bg

\* C10 witness: a colour-only call cleared the eight nodes an earlier call
\* with both arguments had built, and left its own two.
C10_Witness ==
  /\ lastBg.called /\ ~lastBg.raised
  /\ lastBg.hdri = "none"
  /\ Cardinality(lastBg.cleared) = 8
  /\ Cardinality(world.nodes) = 2
  /\ \E nd \in world.nodes : nd.color = <<1, 1, 1, 1>>

\* C11: set_up_background called with neither an HDRI file nor a background
\* colour raises, and leaves the nodes and links of the world shading graph
\* as they were.
C11_MissingArgumentsRaise ==
  [][(\E hdri_rotation \in RotationArgs, loads \in BOOLEAN :
        Renderer_set_up_background("none", NoVec, hdri_rotation, loads))
     => (lastBg'.raised /\ world' = world)]_vars

\* C11 witness: the call without arguments raised on the eight-node graph an
\* earlier call had built, which is still there.
C11_Witness ==
  /\ lastBg.called /\ lastBg.raised
  /\ lastBg.hdri = "none" /\ lastBg.bg = NoVec
  /\ Cardinality(world.nodes) = 8
  /\ Cardinality(world.links) = 7

C13_OrthographicResolution ==
  [][renderLog'.suffix # "none"
     => LET camera == wrappers[renderLog'.camera]
            log == renderLog'
            y == render'.resolution_y
            num == render.resolution_x * (camera.frustum[3] - camera.frustum[4])
            den == camera.frustum[2] - camera.frustum[1]
        IN IF camera.cls = "OrthographicCamera"
           THEN /\ y * den <= num /\ num < (y + 1) * den
                /\ \A i \in OpsIn(log, OutputOps \cup CodecOps \cup {"raise"}) :
                     y # render.resolution_y
                       => \E j \in 1..(i - 1) : log.ops[j] = "resolution_y"
           ELSE y = render.resolution_y]_vars

\* C13 witness: an orthographic render replaced the vertical resolution
\* set_size had configured by the truncation of 11 / 2.
C13_Witness ==
  /\ renderLog.suffix # "none"
  /\ wrappers[renderLog.camera].cls = "OrthographicCamera"
  /\ render.resolution_x = 11
  /\ render.height = 8
  /\ render.resolution_y = 5

\* C15 (as claimed): in a render call to an image-sequence path the
\* callbacks invoked at each frame write are the call's own callback, once,
\* or none if the call supplies no callback, whatever the earlier render
\* calls were.
C15_OwnCallbackOncePerFrame ==
  (renderLog.suffix \notin {"none", ".blend", ".mov", ".png"})
  => renderLog.callbacks
       = (IF renderLog.callback # 0 THEN <<renderLog.callback>> ELSE <<>>)

HasKey(n, path, frame, value) ==
  \E k \in keyframes : AtKey(k, n, path, frame) /\ k.value = value

\* C14 (as claimed): when the driver has made its render call, the simulated
\* object has, for every frame f of the scene's inclusive range
\* frame_start..frame_end, a position keyframe and a quaternion keyframe at
\* f holding the trajectory at f (the quaternion permuted to WXYZ).
C14_KeyframesCoverFrameRange ==
  driver.pc = "done"
  => \A f \in scene.iface_frame_start..scene.iface_frame_end :
       LET n == wrappers[driver.obj].native
       IN /\ HasKey(n, "location", f, SimPosition(f))
          /\ HasKey(n, "rotation_quaternion", f, translate_quat(SimOrientQuat(f)))

====
